---------------------------- MODULE Spec2Model ----------------------------
(***************************************************************************)
(* A model of the dss-parser crate: the DSSParser tokenizer (next_param,   *)
(* get_token, check_for_var), the ParserVar variable table it consults,    *)
(* and the RPNCalculator it owns.  Spec is the tokenizer, SpecVar a        *)
(* ParserVar used by itself, SpecRpn the calculator.                       *)
(*                                                                         *)
(* An f64 of the calculator is an integer the model computes with, or the  *)
(* term of an operation whose result is not such an integer.               *)
(*                                                                         *)
(* A string is a sequence of characters, a character is a one-element      *)
(* TLA+ string ("a", " ", "="), an Option<T> is a sequence of length 0     *)
(* (None) or 1 (Some(x)).  Indices are 0-based as in the source, so the    *)
(* character at index i of s is s[i + 1].                                  *)
(*                                                                         *)
(* The cursor counts characters (get_token indexes cmd_buffer.chars()),    *)
(* while next_param compares it with the length in bytes; WideChar stands  *)
(* for a character of two bytes so that the two lengths can differ.        *)
(*                                                                         *)
(* A panic (Option::unwrap on None in get_token) is recorded in panicked   *)
(* with the fields as they stand at the panic; no call follows it.         *)
(*                                                                         *)
(* A parser is given one line: set_vars, when called, precedes             *)
(* set_cmd_string, and next_param is then called any number of times.      *)
(* set_vars and set_cmd_string are the setters of the source (lib.rs       *)
(* 150-158).  The delimiter configuration is the default one of            *)
(* DSSParser::new(); the source has no live setter for it.                 *)
(***************************************************************************)
EXTENDS Naturals, Integers, Sequences, FiniteSets

VARIABLES
    parser_vars,        \* DSSParser.parser_vars : Option<ParserVar>
    cmd_buffer,         \* DSSParser.cmd_buffer
    position,           \* DSSParser.position (index into the characters)
    parameter_buffer,   \* DSSParser.parameter_buffer
    token_buffer,       \* DSSParser.token_buffer
    last_delimiter,     \* DSSParser.last_delimiter
    is_quoted_string,   \* DSSParser.is_quoted_string
    panicked,           \* TRUE once a call has unwound with a panic
    op,                 \* the operation that produced this state
    ret,                \* the value the last next_param call returned
    call,               \* what the last next_param call saw and did
    yielded,            \* <<name, token as fetched>> of every call made
                        \* on a not yet exhausted buffer, in order
    var_table,          \* a ParserVar a host manages by itself
    var_call,           \* the last call made on var_table, its result and the
                        \* table it was made on
    var_given,          \* per name, the call (add or set_value) that last
                        \* gave it a value, and the value given
    var_calls,          \* the number of calls made on var_table
    stack,              \* rpn_calculator.stack: slot i is stack[i + 1]
    rpn_log,            \* the calls made on the calculator, in order
    rpn_before,         \* the stack the last of them was made on
    rpn_fill            \* how far the calls are those of a host that fills
                        \* the stack and then rolls it

\* the fields of the tokenizer and what is recorded of its calls
tokVars == <<parser_vars, cmd_buffer, position, parameter_buffer, token_buffer,
             last_delimiter, is_quoted_string, panicked, op, ret, call, yielded>>

\* the stand-alone variable table and what is recorded of its calls
varVars == <<var_table, var_call, var_given, var_calls>>

\* the calculator and what is recorded of its calls
rpnVars == <<stack, rpn_log, rpn_before, rpn_fill>>

vars == <<tokVars, varVars, rpnVars>>

---------------------------------------------------------------------------
(* Bounds of the model *)

\* longest line handed to set_cmd_string
MaxLen == 5

\* most calls made on the stand-alone variable table
MaxVarCalls == 4

\* most calls made on the calculator by a host that calls in any order
MaxOps == 2

\* most values a host enters before it rolls the stack
MaxPush == 11

\* most roll_down calls, and most roll_up calls after them, of such a host
MaxRollDown == 7

MaxRollUp == 1

---------------------------------------------------------------------------
(* Options and strings *)

None == <<>>

Some(x) == <<x>>

\* the character that stands for a two-byte UTF-8 character
WideChar == "e_acute"

\* str::len(): the length in bytes
RECURSIVE ByteLen(_)
ByteLen(s) ==
    IF s = <<>> THEN 0
    ELSE (IF Head(s) = WideChar THEN 2 ELSE 1) + ByteLen(Tail(s))

\* str::find(char), as an index into the characters
RECURSIVE FindFrom(_, _, _)
FindFrom(s, ch, i) ==
    IF i >= Len(s) THEN None
    ELSE IF s[i + 1] = ch THEN Some(i)
    ELSE FindFrom(s, ch, i + 1)

find(s, ch) == FindFrom(s, ch, 0)

contains(s, ch) == find(s, ch) # None

\* chars[from..to]
Slice(s, from, to) == SubSeq(s, from + 1, to)

starts_with(s, ch) == s # <<>> /\ s[1] = ch

ends_with(s, ch) == s # <<>> /\ s[Len(s)] = ch

---------------------------------------------------------------------------
(* ParserVar *)

\* the seven intrinsic variables
IntrinsicNames ==
    { <<"@","l","a","s","t","f","i","l","e">>,
      <<"@","l","a","s","t","e","x","p","o","r","t","f","i","l","e">>,
      <<"@","l","a","s","t","s","h","o","w","f","i","l","e">>,
      <<"@","l","a","s","t","p","l","o","t","f","i","l","e">>,
      <<"@","l","a","s","t","r","e","d","i","r","e","c","t","f","i","l","e">>,
      <<"@","l","a","s","t","c","o","m","p","i","l","e","f","i","l","e">>,
      <<"@","r","e","s","u","l","t">> }

ParserVar_new ==
    [ variables       |-> [n \in IntrinsicNames |-> <<"n","u","l","l">>],
      active_variable |-> None ]

\* HashMap::insert
Insert(map, k, v) == [n \in DOMAIN map \cup {k} |-> IF n = k THEN v ELSE map[n]]

\* an add that makes the added variable the active one
ParserVar_add_Activates(pv, var_name, var_value) ==
    LET var_definition ==
            IF contains(var_value, "@") THEN <<"{">> \o var_value \o <<"}">>
            ELSE var_value
    IN  [variables |-> Insert(pv.variables, var_name, var_definition),
         active_variable |-> Some(var_name)]

\* an add that wraps only the values that begin with '@'
ParserVar_add_WrapsOnPrefix(pv, var_name, var_value) ==
    LET var_definition ==
            IF starts_with(var_value, "@") THEN <<"{">> \o var_value \o <<"}">>
            ELSE var_value
    IN  [pv EXCEPT !.variables = Insert(pv.variables, var_name, var_definition)]

ParserVar_add(pv, var_name, var_value) ==
    LET var_definition ==
            IF contains(var_value, "@") THEN <<"{">> \o var_value \o <<"}">>
            ELSE var_value
    IN  [pv EXCEPT !.variables = Insert(pv.variables, var_name, var_definition)]

\* a lookup that leaves the active variable as it was on a miss
ParserVar_lookup_KeepsActive(pv, var_name) ==
    IF var_name \in DOMAIN pv.variables
    THEN [pv EXCEPT !.active_variable = Some(var_name)]
    ELSE pv

\* the table after lookup; the call returns whether var_name is a key
ParserVar_lookup(pv, var_name) ==
    IF var_name \in DOMAIN pv.variables
    THEN [pv EXCEPT !.active_variable = Some(var_name)]
    ELSE [pv EXCEPT !.active_variable = None]

\* what lookup returns
ParserVar_lookup_found(pv, var_name) == var_name \in DOMAIN pv.variables

ParserVar_get_value(pv) ==
    IF pv.active_variable # None
    THEN IF pv.active_variable[1] \in DOMAIN pv.variables
         THEN pv.variables[pv.active_variable[1]]
         ELSE <<>>
    ELSE <<>>

\* a set_value that stores its value as add does
ParserVar_set_value_Wraps(p, value) ==
    IF p.active_variable # None
    THEN ParserVar_add(p, p.active_variable[1], value)
    ELSE p

ParserVar_set_value(p, value) ==
    IF p.active_variable # None
    THEN [p EXCEPT !.variables = Insert(p.variables, p.active_variable[1], value)]
    ELSE p

\* the text "Variable not found"
NotFoundText ==
    <<"V","a","r","i","a","b","l","e"," ","n","o","t"," ","f","o","u","n","d">>

ParserVar_get_var_string(p, var_name) ==
    IF var_name \in DOMAIN p.variables
    THEN LET value == p.variables[var_name]
             display_value == IF value = <<>> THEN <<"n","u","l","l">> ELSE value
         IN  var_name \o <<".", " ">> \o display_value
    ELSE NotFoundText

ParserVar_num_variables(p) == Cardinality(DOMAIN p.variables)

---------------------------------------------------------------------------
(* RPNCalculator *)

\* An f64 is <<"num", n>> for the integer n, <<"pi">>, or the term
\* <<f, operands>> of an operation whose result is not an integer the model
\* computes.
Num(n) == <<"num", n>>

PI == <<"pi">>

IsNum(v) == v[1] = "num"

F_add(a, b) ==
    IF IsNum(a) /\ IsNum(b) THEN Num(a[2] + b[2]) ELSE <<"add", a, b>>

F_sub(a, b) ==
    IF IsNum(a) /\ IsNum(b) THEN Num(a[2] - b[2]) ELSE <<"sub", a, b>>

F_mul(a, b) ==
    IF IsNum(a) /\ IsNum(b) THEN Num(a[2] * b[2]) ELSE <<"mul", a, b>>

F_div(a, b) ==
    IF IsNum(a) /\ IsNum(b) /\ a[2] >= 0 /\ b[2] > 0 /\ a[2] % b[2] = 0
    THEN Num(a[2] \div b[2])
    ELSE <<"div", a, b>>

F_powf(a, b) == <<"powf", a, b>>

F_atan2(a, b) == <<"atan2", a, b>>

RAD_TO_DEG == <<"div", Num(180), PI>>

MAX_STACK_SIZE == 10

RPNCalculator_new == [i \in 1..MAX_STACK_SIZE |-> Num(0)]

\* stack[i] = value
Store(st, i, value) == [st EXCEPT ![i + 1] = value]

\* for i in (1..MAX_STACK_SIZE).rev() { stack[i] = stack[i - 1] }
RECURSIVE roll_up_from(_, _)
roll_up_from(st, i) ==
    IF i < 1 THEN st
    ELSE roll_up_from(Store(st, i, st[(i - 1) + 1]), i - 1)

\* a roll_up that moves what the last slot held to the first
roll_up_Rotates(st) ==
    [i \in 1..MAX_STACK_SIZE |-> IF i = 1 THEN st[MAX_STACK_SIZE] ELSE st[i - 1]]

\* a roll_up that leaves the last slot as it was
roll_up_SparesLast(st) == roll_up_from(st, MAX_STACK_SIZE - 2)

roll_up(st) == roll_up_from(st, MAX_STACK_SIZE - 1)

\* for i in 1..MAX_STACK_SIZE { stack[i - 1] = stack[i] }
RECURSIVE roll_down_from(_, _)
roll_down_from(st, i) ==
    IF i >= MAX_STACK_SIZE THEN st
    ELSE roll_down_from(Store(st, i - 1, st[i + 1]), i + 1)

\* a roll_down that leaves the first slot as it was
roll_down_SparesFirst(st) == roll_down_from(st, 2)

roll_down(st) == roll_down_from(st, 1)

\* a set_x that stores its value without moving the others
set_x_Overwrites(st, value) == Store(st, 0, value)

set_x(st, value) == Store(roll_up(st), 0, value)

set_y(st, value) == Store(st, 1, value)

set_z(st, value) == Store(st, 2, value)

add(st) == roll_down(Store(st, 1, F_add(st[1], st[2])))

\* a subtract that takes the top of the stack as its left operand
subtract_Reversed(st) == roll_down(Store(st, 1, F_sub(st[1], st[2])))

subtract(st) == roll_down(Store(st, 1, F_sub(st[2], st[1])))

multiply(st) == roll_down(Store(st, 1, F_mul(st[2], st[1])))

divide(st) == roll_down(Store(st, 1, F_div(st[2], st[1])))

y_to_the_x_power(st) == roll_down(Store(st, 1, F_powf(st[2], st[1])))

atan2_deg(st) ==
    roll_down(Store(st, 1, F_mul(RAD_TO_DEG, F_atan2(st[2], st[1]))))

enter_pi(st) == Store(roll_up(st), 0, PI)

swap_xy(st) ==
    LET temp == st[1]
    IN  Store(Store(st, 0, st[2]), 1, temp)

\* the operations that replace stack[0] by a function of it
UnaryNames ==
    { "sqrt", "square", "inv", "sin_deg", "cos_deg", "tan_deg", "asin_deg",
      "acos_deg", "atan_deg", "nat_log", "ten_log", "etothex" }

unary(st, f) ==
    Store(st, 0, IF f = "square" THEN F_mul(st[1], st[1]) ELSE <<f, st[1]>>)

---------------------------------------------------------------------------
(* DSSParser: configuration *)

COMMENT_CHAR == "!"

VARIABLE_DELIMITER == "@"

delim_chars == <<",", "=">>

whitespace_chars == <<" ", "\t">>

begin_quote_chars == <<"(", "\"", "'", "[", "{">>

\* close characters that pair '"' with '"' and leave '}' to '{'
end_quote_chars_Symmetric == <<")", "\"", "'", "]", "}">>

end_quote_chars == <<")", "}", "'", "]">>

is_whitespace(ch) == contains(whitespace_chars, ch)

is_delim_char(ch) == contains(delim_chars, ch)

is_comment_char(ch, next_ch) ==
    ch = COMMENT_CHAR \/ (ch = "/" /\ next_ch = Some("/"))

is_delimiter(ch, next_ch) ==
    is_comment_char(ch, next_ch) \/ is_delim_char(ch) \/ is_whitespace(ch)

RECURSIVE skip_whitespace(_, _)
skip_whitespace(chars, pos) ==
    IF pos < Len(chars) /\ is_whitespace(chars[pos + 1])
    THEN skip_whitespace(chars, pos + 1)
    ELSE pos


---------------------------------------------------------------------------
(* DSSParser: get_token *)

\* a scan of a quoted span that a blank ends as well
RECURSIVE ScanQuoted_StopsAtBlank(_, _, _)
ScanQuoted_StopsAtBlank(chars, pos, end_quote) ==
    IF pos < Len(chars) /\ chars[pos + 1] # end_quote
                        /\ ~is_whitespace(chars[pos + 1])
    THEN ScanQuoted_StopsAtBlank(chars, pos + 1, end_quote)
    ELSE pos

\* the scan of a quoted span: the index of the closing character, or the
\* length of the buffer
RECURSIVE ScanQuoted(_, _, _)
ScanQuoted(chars, pos, end_quote) ==
    IF pos < Len(chars) /\ chars[pos + 1] # end_quote
    THEN ScanQuoted(chars, pos + 1, end_quote)
    ELSE pos

\* the scan of a regular token; next_ch is the one computed before the loop
RECURSIVE ScanRegular(_, _, _)
ScanRegular(chars, pos, next_ch) ==
    IF pos < Len(chars) /\ ~is_delimiter(chars[pos + 1], next_ch)
    THEN ScanRegular(chars, pos + 1, next_ch)
    ELSE pos

\* the lookahead character of a regular token
LookAhead(chars, pos) ==
    IF pos + 1 < Len(chars) THEN Some(chars[pos + 2]) ELSE None

\* end_quote_chars.chars().nth(quote_pos): None past the last character
EndQuote(quote_pos) ==
    IF quote_pos < Len(end_quote_chars)
    THEN Some(end_quote_chars[quote_pos + 1])
    ELSE None

\* the cursor after the terminator of a regular token at index stop
AfterDelimiter(chars, stop, next_ch) ==
    IF is_comment_char(chars[stop + 1], next_ch)
    THEN Len(chars)
    ELSE skip_whitespace(chars,
                         IF is_delim_char(chars[stop + 1]) THEN stop + 1 ELSE stop)

\* a step past the end quote that does not look for the end of the buffer
AfterQuote_AlwaysSkips(chars, stop) == stop + 1

\* the cursor after a quoted span whose scan stopped at index stop
AfterQuote(chars, stop) == IF stop < Len(chars) THEN stop + 1 ELSE stop

\* get_token on a parser with the buffer chars, the cursor pos, the last
\* delimiter ld and the quoted flag q: the token it returns and the fields it
\* leaves; panicked when .unwrap() meets None
get_token(chars, pos, ld, q) ==
    IF pos >= Len(chars)
    THEN [token |-> <<>>, position |-> pos, last_delimiter |-> ld,
          is_quoted_string |-> q, panicked |-> FALSE]
    ELSE
      LET ch == chars[pos + 1]
          quote_pos == find(begin_quote_chars, ch)
      IN  IF quote_pos # None
          THEN
            IF EndQuote(quote_pos[1]) = None
            THEN [token |-> <<>>, position |-> pos, last_delimiter |-> ld,
                  is_quoted_string |-> FALSE, panicked |-> TRUE]
            ELSE
              LET end_quote == EndQuote(quote_pos[1])[1]
                  start == pos + 1
                  stop == ScanQuoted(chars, start, end_quote)
              IN  [token |-> Slice(chars, start, stop),
                   position |-> AfterQuote(chars, stop),
                   last_delimiter |-> ld,
                   is_quoted_string |-> TRUE, panicked |-> FALSE]
          ELSE
            LET start == pos
                next_ch == LookAhead(chars, pos)
                stop == ScanRegular(chars, start, next_ch)
            IN  IF stop < Len(chars)
                THEN [token |-> Slice(chars, start, stop),
                      position |-> AfterDelimiter(chars, stop, next_ch),
                      last_delimiter |-> chars[stop + 1],
                      is_quoted_string |-> FALSE, panicked |-> FALSE]
                ELSE [token |-> Slice(chars, start, stop),
                      position |-> stop, last_delimiter |-> ld,
                      is_quoted_string |-> FALSE, panicked |-> FALSE]

---------------------------------------------------------------------------
(* DSSParser: check_for_var *)

\* a cut point that prefers the first '.' to the first '^'
DelimiterPos_DotFirst(token) ==
    IF find(token, ".") # None THEN find(token, ".") ELSE find(token, "^")

\* the cut point of a variable reference: the first '^', else the first '.'
DelimiterPos(token) ==
    IF find(token, "^") # None THEN find(token, "^") ELSE find(token, ".")

VariableName(token) ==
    IF DelimiterPos(token) # None
    THEN Slice(token, 0, DelimiterPos(token)[1])
    ELSE token

\* &token_buffer[pos..], empty when there is no cut point
Suffix(token) ==
    IF DelimiterPos(token) # None
    THEN Slice(token, DelimiterPos(token)[1], Len(token))
    ELSE <<>>

IsBraced(var_value) == starts_with(var_value, "{") /\ ends_with(var_value, "}")

\* the guard of the substitution attempt
IsVarReference(token) ==
    ByteLen(token) > 1 /\ starts_with(token, VARIABLE_DELIMITER)

\* a strip of the opening brace alone
InnerValue_KeepsClose(var_value) == Slice(var_value, 1, Len(var_value))

\* &var_value[1..var_value.len() - 1]
InnerValue(var_value) == Slice(var_value, 1, Len(var_value) - 1)

\* a splice that does not ask whether the lookup hit
Splice_NoHitCheck(token, hit, var_value) ==
    IF IsBraced(var_value)
    THEN Slice(var_value, 1, Len(var_value) - 1) \o Suffix(token)
    ELSE var_value \o Suffix(token)

\* a splice of a plain value that drops the text after the cut point
Splice_DropsSuffix(token, hit, var_value) ==
    IF ~hit THEN token
    ELSE IF IsBraced(var_value)
    THEN Slice(var_value, 1, Len(var_value) - 1) \o Suffix(token)
    ELSE var_value

\* the token buffer after the lookup of its variable name: hit tells whether
\* vars.lookup returned true, var_value is what get_value then returned
Splice(token, hit, var_value) ==
    IF ~hit THEN token
    ELSE IF IsBraced(var_value)
    THEN InnerValue(var_value) \o Suffix(token)
    ELSE var_value \o Suffix(token)

\* a check_for_var that looks up and splices again when the spliced text is
\* itself a reference
check_for_var_Again(token, pvars, q) ==
    IF IsVarReference(token) /\ pvars # None
    THEN
      LET looked == ParserVar_lookup(pvars[1], VariableName(token))
          hit == VariableName(token) \in DOMAIN pvars[1].variables
          var_value == ParserVar_get_value(looked)
          spliced == Splice(token, hit, var_value)
          again == hit /\ IsVarReference(spliced)
          looked2 == ParserVar_lookup(looked, VariableName(spliced))
          hit2 == VariableName(spliced) \in DOMAIN pvars[1].variables
          var_value2 == ParserVar_get_value(looked2)
          spliced2 == Splice(spliced, hit2, var_value2)
      IN  [token_buffer |-> IF again THEN spliced2 ELSE spliced,
           parser_vars |-> Some(IF again THEN looked2 ELSE looked),
           is_quoted_string |->
               IF (hit /\ IsBraced(var_value))
                    \/ (again /\ hit2 /\ IsBraced(var_value2))
               THEN TRUE ELSE q,
           unchanged |-> (IF again THEN spliced2 ELSE spliced) = token]
    ELSE [token_buffer |-> token, parser_vars |-> pvars,
          is_quoted_string |-> q, unchanged |-> TRUE]

\* check_for_var on the token buffer token, the table pvars and the quoted
\* flag q: the fields it leaves and the value it returns
check_for_var(token, pvars, q) ==
    IF IsVarReference(token) /\ pvars # None
    THEN
      LET looked == ParserVar_lookup(pvars[1], VariableName(token))
          hit == VariableName(token) \in DOMAIN pvars[1].variables
          var_value == ParserVar_get_value(looked)
          spliced == Splice(token, hit, var_value)
      IN  [token_buffer |-> spliced,
           parser_vars |-> Some(looked),
           is_quoted_string |-> IF hit /\ IsBraced(var_value) THEN TRUE ELSE q,
           unchanged |-> spliced = token]
    ELSE [token_buffer |-> token, parser_vars |-> pvars,
          is_quoted_string |-> q, unchanged |-> TRUE]

---------------------------------------------------------------------------
(* DSSParser: next_param *)

\* the buffer is not exhausted: the cursor is below the length in bytes
HasInput(chars, pos) == pos < ByteLen(chars)

\* an extraction that keeps the name of a pair without its leading sigil
ExtractInput_NameWithoutSigil(chars, pos, q, param, tok) ==
    LET first == get_token(chars, pos, " ", q)
        second == get_token(chars, first.position, first.last_delimiter,
                            first.is_quoted_string)
    IN  IF first.panicked
        THEN [token_buffer |-> tok, parameter_buffer |-> param,
              position |-> first.position,
              last_delimiter |-> first.last_delimiter,
              is_quoted_string |-> first.is_quoted_string,
              panicked |-> TRUE, paired |-> FALSE, first |-> first]
        ELSE IF first.last_delimiter = "="
        THEN [token_buffer |-> IF second.panicked THEN first.token
                               ELSE second.token,
              parameter_buffer |-> IF starts_with(first.token, "@")
                                   THEN Tail(first.token) ELSE first.token,
              position |-> second.position,
              last_delimiter |-> second.last_delimiter,
              is_quoted_string |-> second.is_quoted_string,
              panicked |-> second.panicked, paired |-> TRUE, first |-> first]
        ELSE [token_buffer |-> first.token, parameter_buffer |-> <<>>,
              position |-> first.position,
              last_delimiter |-> first.last_delimiter,
              is_quoted_string |-> first.is_quoted_string,
              panicked |-> FALSE, paired |-> FALSE, first |-> first]

\* an extraction in which a quoted first token records the character after
\* its closing quote as its terminator
ExtractInput_QuotedRecordsTerminator(chars, pos, q, param, tok) ==
    LET fetched == get_token(chars, pos, " ", q)
        first == IF fetched.is_quoted_string /\ fetched.position < Len(chars)
                 THEN [fetched EXCEPT
                           !.last_delimiter = chars[fetched.position + 1]]
                 ELSE fetched
        second == get_token(chars, first.position, first.last_delimiter,
                            first.is_quoted_string)
    IN  IF first.panicked
        THEN [token_buffer |-> tok, parameter_buffer |-> param,
              position |-> first.position,
              last_delimiter |-> first.last_delimiter,
              is_quoted_string |-> first.is_quoted_string,
              panicked |-> TRUE, paired |-> FALSE, first |-> first]
        ELSE IF first.last_delimiter = "="
        THEN [token_buffer |-> IF second.panicked THEN first.token
                               ELSE second.token,
              parameter_buffer |-> first.token,
              position |-> second.position,
              last_delimiter |-> second.last_delimiter,
              is_quoted_string |-> second.is_quoted_string,
              panicked |-> second.panicked, paired |-> TRUE, first |-> first]
        ELSE [token_buffer |-> first.token, parameter_buffer |-> <<>>,
              position |-> first.position,
              last_delimiter |-> first.last_delimiter,
              is_quoted_string |-> first.is_quoted_string,
              panicked |-> FALSE, paired |-> FALSE, first |-> first]

\* the branch of next_param taken on a buffer that has input: the fields it
\* leaves.  first is the result of the first get_token call and paired tells
\* whether the second was made.
ExtractInput(chars, pos, q, param, tok) ==
    LET first == get_token(chars, pos, " ", q)
        second == get_token(chars, first.position, first.last_delimiter,
                            first.is_quoted_string)
    IN  IF first.panicked
        THEN [token_buffer |-> tok, parameter_buffer |-> param,
              position |-> first.position,
              last_delimiter |-> first.last_delimiter,
              is_quoted_string |-> first.is_quoted_string,
              panicked |-> TRUE, paired |-> FALSE, first |-> first]
        ELSE IF first.last_delimiter = "="
        THEN [token_buffer |-> IF second.panicked THEN first.token
                               ELSE second.token,
              parameter_buffer |-> first.token,
              position |-> second.position,
              last_delimiter |-> second.last_delimiter,
              is_quoted_string |-> second.is_quoted_string,
              panicked |-> second.panicked, paired |-> TRUE, first |-> first]
        ELSE [token_buffer |-> first.token, parameter_buffer |-> <<>>,
              position |-> first.position,
              last_delimiter |-> first.last_delimiter,
              is_quoted_string |-> first.is_quoted_string,
              panicked |-> FALSE, paired |-> FALSE, first |-> first]

\* an exhausted branch that does not clear the token buffer
ExtractExhausted_KeepsToken(pos, ld, q, param, tok) ==
    [token_buffer |-> tok, parameter_buffer |-> <<>>,
     position |-> pos, last_delimiter |-> ld, is_quoted_string |-> q,
     panicked |-> FALSE, paired |-> FALSE,
     first |-> get_token(<<>>, pos, ld, q)]

\* the branch of next_param taken on an exhausted buffer
ExtractExhausted(pos, ld, q, param, tok) ==
    [token_buffer |-> <<>>, parameter_buffer |-> <<>>,
     position |-> pos, last_delimiter |-> ld, is_quoted_string |-> q,
     panicked |-> FALSE, paired |-> FALSE,
     first |-> get_token(<<>>, pos, ld, q)]

\* the extraction half of next_param (all but check_for_var) on a parser with
\* the buffer chars, the cursor pos, the last delimiter ld, the quoted flag q
\* and the buffers param and tok
Extract(chars, pos, ld, q, param, tok) ==
    IF HasInput(chars, pos)
    THEN ExtractInput(chars, pos, q, param, tok)
    ELSE ExtractExhausted(pos, ld, q, param, tok)

---------------------------------------------------------------------------
(* The state machine *)

\* what a next_param call records: the cursor and the flag it started from,
\* the first get_token result, whether a second token was fetched, and the
\* token buffer and the flag between extraction and check_for_var
NoCall ==
    [position |-> 0, is_quoted_string |-> FALSE, has_input |-> FALSE,
     first |-> get_token(<<>>, 0, " ", FALSE), paired |-> FALSE,
     extracted |-> <<>>, quoted |-> FALSE, unchanged |-> TRUE]

\* the names a host adds, the names it looks up and asks for (the added
\* ones, the intrinsic ones and one that is never added), the values it gives
AddNames == { <<"@", "v">>, <<"@", "r", "e", "s", "u", "l", "t">> }

AskNames == AddNames \cup IntrinsicNames \cup { <<"@", "w">> }

VarValues == { <<"4", "2">>, <<"@", "o">>, <<"4", "@">>, <<>> }

\* what a call on the stand-alone table records: the operation, its
\* arguments, its result (by type) and the table it was made on
VarCall(o, n, v, rb, rs, rn, before) ==
    [op |-> o, name |-> n, value |-> v, ret_bool |-> rb, ret_str |-> rs,
     ret_num |-> rn, before |-> before]

NoVarCall == VarCall("new", <<>>, <<>>, FALSE, <<>>, 0, ParserVar_new)

\* The host of the calculator fills the stack and rolls it as long as its
\* calls are values entered by set_x ("push"), then possibly pi ("pi"), then
\* roll_down calls ("down"), then roll_up calls ("up"); any other call ends
\* that ("other").
NoFill == [phase |-> "push", downs |-> 0, ups |-> 0]

\* DSSParser::new(), and ParserVar::new() for the stand-alone table
Init ==
    /\ parser_vars = None
    /\ cmd_buffer = <<>>
    /\ position = 0
    /\ parameter_buffer = <<>>
    /\ token_buffer = <<>>
    /\ last_delimiter = " "
    /\ is_quoted_string = FALSE
    /\ panicked = FALSE
    /\ op = "new"
    /\ ret = <<>>
    /\ call = NoCall
    /\ yielded = <<>>
    /\ var_table = ParserVar_new
    /\ var_call = NoVarCall
    /\ var_given = [n \in AskNames |-> None]
    /\ var_calls = 0
    /\ stack = RPNCalculator_new
    /\ rpn_log = <<>>
    /\ rpn_before = RPNCalculator_new
    /\ rpn_fill = NoFill

\* the alphabets the lines are written in: each holds the characters of one
\* family of lines (pairing and comments, quoted spans, variable references)
Alphabets ==
    { {"a", " ", "=", "/", "!"},
      {"a", " ", ",", "=", "/"},
      {"a", "(", ")", " ", "="},
      {"a", "(", ")", "!", "/"},
      {"a", "\"", "}", "{", " "},
      {"a", "'", "[", "]", ","},
      {"@", "a", "^", ".", "="},
      {"@", "a", "(", ")", "."},
      {"a", "\t", ",", "@", WideChar} }

SeqsUpTo(A, n) == UNION { [1..k -> A] : k \in 0..n }

Lines == UNION { SeqsUpTo(A, MaxLen) : A \in Alphabets }

\* the table a host attaches: the intrinsic variables, @a defined by a value
\* that holds the sigil (stored brace-wrapped) and @aa by a plain value
HostTable ==
    ParserVar_add(ParserVar_add(ParserVar_new, <<"@", "a">>, <<"@", "b">>),
                  <<"@", "a", "a">>, <<"b">>)

\* another table: @aa defined by add with the value "@a" (stored
\* brace-wrapped) and @a given the value "@aa" by set_value (stored as given)
HostTableChained ==
    ParserVar_set_value(
        ParserVar_lookup(
            ParserVar_add(ParserVar_add(ParserVar_new, <<"@", "a">>, <<"x">>),
                          <<"@", "a", "a">>, <<"@", "a">>),
            <<"@", "a">>),
        <<"@", "a", "a">>)

HostTables == { HostTable, HostTableChained }

\* set_vars(vars), on a parser that has no line yet
SetVars ==
    /\ op = "new"
    /\ \E t \in HostTables : parser_vars' = Some(t)
    /\ op' = "set_vars"
    /\ UNCHANGED <<cmd_buffer, position, parameter_buffer, token_buffer,
                   last_delimiter, is_quoted_string, panicked, ret, call,
                   yielded, varVars, rpnVars>>

\* set_cmd_string(value), once per parser
SetCmdString ==
    /\ op \in {"new", "set_vars"}
    /\ \E value \in Lines :
         /\ cmd_buffer' = value \o <<" ">>
         /\ position' = skip_whitespace(value \o <<" ">>, 0)
    /\ op' = "set_cmd_string"
    /\ UNCHANGED <<parser_vars, parameter_buffer, token_buffer, last_delimiter,
                   is_quoted_string, panicked, ret, call, yielded, varVars, rpnVars>>

\* next_param()
NextParam ==
    /\ ~panicked
    /\ \E e \in {Extract(cmd_buffer, position, last_delimiter, is_quoted_string,
                        parameter_buffer, token_buffer)} :
       \E c \in {check_for_var(e.token_buffer, parser_vars, e.is_quoted_string)} :
           /\ position' = e.position
           /\ last_delimiter' = e.last_delimiter
           /\ parameter_buffer' = e.parameter_buffer
           /\ panicked' = e.panicked
           /\ call' = [position |-> position,
                       is_quoted_string |-> is_quoted_string,
                       has_input |-> position < Len(cmd_buffer),
                       first |-> e.first, paired |-> e.paired,
                       extracted |-> e.token_buffer,
                       quoted |-> e.is_quoted_string,
                       unchanged |-> e.panicked \/ c.unchanged]
           /\ IF e.panicked
              THEN /\ token_buffer' = e.token_buffer
                   /\ is_quoted_string' = e.is_quoted_string
                   /\ UNCHANGED <<parser_vars, ret, yielded>>
              ELSE /\ token_buffer' = c.token_buffer
                   /\ is_quoted_string' = c.is_quoted_string
                   /\ parser_vars' = c.parser_vars
                   /\ ret' = e.parameter_buffer
                   /\ yielded' = IF position < Len(cmd_buffer)
                                 THEN Append(yielded,
                                             <<e.parameter_buffer, e.token_buffer>>)
                                 ELSE yielded
    /\ op' = "next_param"
    /\ UNCHANGED <<cmd_buffer, varVars, rpnVars>>

Next == SetVars \/ SetCmdString \/ NextParam

Spec == Init /\ [][Next]_vars

---------------------------------------------------------------------------
(* State machine of a stand-alone ParserVar *)

\* what is recorded of the value a name was last given
Given(by, v) == [by |-> by, value |-> v]

\* one call on the table: the table after it, what is recorded of it
Called(after, c) ==
    /\ var_calls < MaxVarCalls
    /\ var_table' = after
    /\ var_call' = c
    /\ var_calls' = var_calls + 1
    /\ UNCHANGED <<tokVars, rpnVars>>

\* ParserVar::add(var_name, var_value); it returns true
VarAdd ==
    \E n \in AddNames : \E v \in VarValues :
        /\ Called(ParserVar_add(var_table, n, v),
                  VarCall("add", n, v, TRUE, <<>>, 0, var_table))
        /\ var_given' = [var_given EXCEPT ![n] = Some(Given("add", v))]

\* ParserVar::lookup(var_name)
VarLookup ==
    \E n \in AskNames :
        /\ Called(ParserVar_lookup(var_table, n),
                  VarCall("lookup", n, <<>>, ParserVar_lookup_found(var_table, n),
                          <<>>, 0, var_table))
        /\ UNCHANGED var_given

\* ParserVar::get_value()
VarGetValue ==
    /\ Called(var_table,
              VarCall("get_value", <<>>, <<>>, FALSE,
                      ParserVar_get_value(var_table), 0, var_table))
    /\ UNCHANGED var_given

\* ParserVar::set_value(value)
VarSetValue ==
    \E v \in VarValues :
        /\ Called(ParserVar_set_value(var_table, v),
                  VarCall("set_value", <<>>, v, FALSE, <<>>, 0, var_table))
        /\ var_given' =
               [n \in AskNames |->
                   IF var_table.active_variable = Some(n)
                   THEN Some(Given("set_value", v))
                   ELSE var_given[n]]

\* ParserVar::get_var_string(var_name)
VarGetVarString ==
    \E n \in AskNames :
        /\ Called(var_table,
                  VarCall("get_var_string", n, <<>>, FALSE,
                          ParserVar_get_var_string(var_table, n), 0, var_table))
        /\ UNCHANGED var_given

\* ParserVar::num_variables()
VarNumVariables ==
    /\ Called(var_table,
              VarCall("num_variables", <<>>, <<>>, FALSE, <<>>,
                      ParserVar_num_variables(var_table), var_table))
    /\ UNCHANGED var_given

NextVar ==
    \/ VarAdd
    \/ VarLookup
    \/ VarGetValue
    \/ VarSetValue
    \/ VarGetVarString
    \/ VarNumVariables

SpecVar == Init /\ [][NextVar]_vars

---------------------------------------------------------------------------
(* State machine of the calculator *)

\* the values a host enters
RpnValues == { Num(4), Num(10) }

BinaryNames ==
    { "add", "subtract", "multiply", "divide", "y_to_the_x_power", "atan2_deg" }

\* the record of the calls after the call o
FillAfter(f, o) ==
    CASE o = "set_x" /\ f.phase = "push" -> f
      [] o = "enter_pi" /\ f.phase = "push" -> [f EXCEPT !.phase = "pi"]
      [] o = "roll_down" /\ f.phase \in {"push", "pi", "down"} ->
             [f EXCEPT !.phase = "down", !.downs = f.downs + 1]
      [] o = "roll_up" /\ f.phase \in {"push", "pi", "down", "up"} ->
             [f EXCEPT !.phase = "up", !.ups = f.ups + 1]
      [] OTHER -> [f EXCEPT !.phase = "other"]

\* The calls a host makes: at most MaxOps calls in any order; or up to MaxPush
\* values entered, followed either by one binary operation or by up to
\* MaxRollDown roll_down and then up to MaxRollUp roll_up calls.
MayCall(o) ==
    IF Len(rpn_log) < MaxOps THEN TRUE
    ELSE CASE o \in {"set_x", "enter_pi"} ->
                  rpn_fill.phase = "push" /\ Len(rpn_log) < MaxPush
           [] o \in BinaryNames -> rpn_fill.phase \in {"push", "pi"}
           [] o = "roll_down" ->
                  /\ rpn_fill.phase \in {"push", "pi", "down"}
                  /\ rpn_fill.downs < MaxRollDown
           [] o = "roll_up" ->
                  /\ rpn_fill.phase \in {"push", "pi", "down", "up"}
                  /\ rpn_fill.ups < MaxRollUp
           [] OTHER -> FALSE

\* one call on the calculator: the stack after it, what is recorded of it
Did(o, value, after) ==
    /\ MayCall(o)
    /\ stack' = after
    /\ rpn_log' = Append(rpn_log, [op |-> o, value |-> value])
    /\ rpn_before' = stack
    /\ rpn_fill' = FillAfter(rpn_fill, o)
    /\ UNCHANGED <<tokVars, varVars>>

SetX == \E v \in RpnValues : Did("set_x", v, set_x(stack, v))

SetY == \E v \in RpnValues : Did("set_y", v, set_y(stack, v))

SetZ == \E v \in RpnValues : Did("set_z", v, set_z(stack, v))

Add == Did("add", Num(0), add(stack))

Subtract == Did("subtract", Num(0), subtract(stack))

Multiply == Did("multiply", Num(0), multiply(stack))

Divide == Did("divide", Num(0), divide(stack))

YToTheXPower == Did("y_to_the_x_power", Num(0), y_to_the_x_power(stack))

Atan2Deg == Did("atan2_deg", Num(0), atan2_deg(stack))

EnterPi == Did("enter_pi", PI, enter_pi(stack))

SwapXY == Did("swap_xy", Num(0), swap_xy(stack))

RollUp == Did("roll_up", Num(0), roll_up(stack))

RollDown == Did("roll_down", Num(0), roll_down(stack))

Unary == \E f \in UnaryNames : Did(f, Num(0), unary(stack, f))

NextRpn ==
    \/ SetX
    \/ SetY
    \/ SetZ
    \/ Add
    \/ Subtract
    \/ Multiply
    \/ Divide
    \/ YToTheXPower
    \/ Atan2Deg
    \/ EnterPi
    \/ SwapXY
    \/ RollUp
    \/ RollDown
    \/ Unary

SpecRpn == Init /\ [][NextRpn]_vars

---------------------------------------------------------------------------
(* The lexical rules of the specification, stated on the text of the line  *)
(* and used by the properties below to say what a token is.                *)

\* a comment marker begins at index i: '!' or the first '/' of "//"
MarkerAt(chars, i) ==
    \/ chars[i + 1] = "!"
    \/ chars[i + 1] = "/" /\ i + 1 < Len(chars) /\ chars[i + 2] = "/"

\* the character at index i ends an unquoted token
TerminatorAt(chars, i) ==
    \/ chars[i + 1] \in {" ", "\t"}
    \/ chars[i + 1] \in {",", "="}
    \/ MarkerAt(chars, i)

\* where the unquoted token that begins at index p ends
WordStop(chars, p) ==
    CHOOSE k \in p..Len(chars) :
        /\ k = Len(chars) \/ TerminatorAt(chars, k)
        /\ \A j \in p..(k - 1) : ~TerminatorAt(chars, j)

\* the quote pairs: the n-th open character with the n-th close character
QuotePairs == { <<"(", ")">>, <<"\"", "}">>, <<"'", "'">>, <<"[", "]">> }

QuoteOpens == {"(", "\"", "'", "[", "{"}

CloseOf(open) == (CHOOSE pr \in QuotePairs : pr[1] = open)[2]

\* where the quoted span whose text begins at index p ends
SpanStop(chars, p, close) ==
    CHOOSE k \in p..Len(chars) :
        /\ k = Len(chars) \/ chars[k + 1] = close
        /\ \A j \in p..(k - 1) : chars[j + 1] # close

\* the first index at or after p that holds no whitespace
BlankStop(chars, p) ==
    CHOOSE k \in p..Len(chars) :
        /\ k = Len(chars) \/ chars[k + 1] \notin {" ", "\t"}
        /\ \A j \in p..(k - 1) : chars[j + 1] \in {" ", "\t"}

\* the token that begins at index p (of a paired quote or of a word)
TokenAt(chars, p) ==
    IF p >= Len(chars) THEN <<>>
    ELSE IF \E pr \in QuotePairs : pr[1] = chars[p + 1]
    THEN Slice(chars, p + 1, SpanStop(chars, p + 1, CloseOf(chars[p + 1])))
    ELSE Slice(chars, p, WordStop(chars, p))

\* a next_param call has returned
Returned == op = "next_param" /\ ~panicked

---------------------------------------------------------------------------
(* C1 *)

\* the first token of the last call was unquoted and ended by '='
FirstEndedByEquals ==
    /\ call.has_input
    /\ ~call.first.is_quoted_string
    /\ call.first.last_delimiter = "="

\* the index of the '=' that ended the first token of the last call
EqualsPos == call.position + find(Slice(cmd_buffer, call.position,
                                        Len(cmd_buffer)), "=")[1]

\* C1: when the first token a next_param call extracts is unquoted and ended
\* by '=', the call returns the text before the '=' as the name, and the
\* token buffer (as fetched, before variable substitution) is the token that
\* follows the '='.
C1_NameValuePairing ==
    (Returned /\ FirstEndedByEquals) =>
        /\ ret = Slice(cmd_buffer, call.position, EqualsPos)
        /\ call.extracted = TokenAt(cmd_buffer, BlankStop(cmd_buffer, EqualsPos + 1))

---------------------------------------------------------------------------
(* C2 *)

\* the index of the first comment marker of the line that lies outside a
\* quoted span, found by walking the tokens from index p; the length of the
\* line when there is none (or when an unpaired quote-open character begins
\* a token, for which the rules name no span)
RECURSIVE FirstMarker(_, _)
FirstMarker(chars, p) ==
    IF p >= Len(chars) THEN Len(chars)
    ELSE IF chars[p + 1] \in {" ", "\t", ",", "="} THEN FirstMarker(chars, p + 1)
    ELSE IF MarkerAt(chars, p) THEN p
    ELSE IF \E pr \in QuotePairs : pr[1] = chars[p + 1]
    THEN LET k == SpanStop(chars, p + 1, CloseOf(chars[p + 1]))
         IN  FirstMarker(chars, IF k < Len(chars) THEN k + 1 ELSE k)
    ELSE IF chars[p + 1] \in QuoteOpens THEN Len(chars)
    ELSE FirstMarker(chars, WordStop(chars, p))

\* the line holds a comment marker outside a quoted span
HasMarker == FirstMarker(cmd_buffer, 0) < Len(cmd_buffer)

\* the index just past that marker ('!' is one character, "//" two)
MarkerEnd ==
    FirstMarker(cmd_buffer, 0)
        + (IF cmd_buffer[FirstMarker(cmd_buffer, 0) + 1] = "!" THEN 1 ELSE 2)

\* C2: once the scan has met a comment marker outside a quoted span the
\* cursor is at the end of the buffer, and the name and the token of a call
\* hold no text of the line that lies after the marker.
C2_CommentTruncation ==
    HasMarker =>
        /\ position <= FirstMarker(cmd_buffer, 0) \/ position = Len(cmd_buffer)
        /\ (Returned /\ call.has_input) =>
               call.position + Len(ret) + Len(call.extracted) <= MarkerEnd

---------------------------------------------------------------------------
(* C3 *)

\* C3: next_param never fails: no call ends in a panic, whatever the buffer
\* holds and wherever the cursor is.
C3_NextParamNeverFails == ~panicked

---------------------------------------------------------------------------
(* C4 *)

\* where the token that the last call left in the token buffer begins
TokenStart == IF call.paired THEN call.first.position ELSE call.position

\* the last call fetched its token at a quote-open character that has a
\* close character at the same index of the configuration
AtPairedQuote ==
    /\ Returned
    /\ TokenStart < Len(cmd_buffer)
    /\ \E pr \in QuotePairs : pr[1] = cmd_buffer[TokenStart + 1]

\* the index at which the quoted span opened at TokenStart ends
SpanEnd ==
    SpanStop(cmd_buffer, TokenStart + 1, CloseOf(cmd_buffer[TokenStart + 1]))

---------------------------------------------------------------------------
(* C5 *)

\* the index just past the token that begins at index p
TokenEnd(chars, p) ==
    IF \E pr \in QuotePairs : pr[1] = chars[p + 1]
    THEN LET k == SpanStop(chars, p + 1, CloseOf(chars[p + 1]))
         IN  IF k < Len(chars) THEN k + 1 ELSE k
    ELSE WordStop(chars, p)

\* the index at which the next word begins after a token that ended at p:
\* past the blanks, one comma and the blanks that delimit them
PastDelimiter(chars, p) ==
    LET b == BlankStop(chars, p)
    IN  IF b < Len(chars) /\ chars[b + 1] = ","
        THEN BlankStop(chars, b + 1)
        ELSE b

\* the whitespace/comma-delimited words of the line from index p on
RECURSIVE Words(_, _)
Words(chars, p) ==
    IF p >= Len(chars) THEN <<>>
    ELSE <<TokenAt(chars, p)>>
             \o Words(chars, PastDelimiter(chars, TokenEnd(chars, p)))

\* the line holds none of '=', a comment marker or an unpaired quote-open
\* character
PlainLine ==
    \A i \in 1..Len(cmd_buffer) : cmd_buffer[i] \notin {"=", "!", "/", "{"}

\* the tokens fetched so far
Tokens == [i \in 1..Len(yielded) |-> yielded[i][2]]

\* C5: on a line without '=' every call returns an empty name, and the
\* tokens fetched until the buffer is exhausted are the whitespace/comma-
\* delimited words of the line, in order, with no empty token in between.
C5_WordsOfPlainLine ==
    (PlainLine /\ op # "new") =>
        LET words == Words(cmd_buffer, BlankStop(cmd_buffer, 0))
        IN  /\ \A i \in 1..Len(yielded) : yielded[i][1] = <<>>
            /\ ret = <<>>
            /\ Len(Tokens) <= Len(words)
            /\ Tokens = SubSeq(words, 1, Len(Tokens))
            /\ position = Len(cmd_buffer) => Tokens = words

---------------------------------------------------------------------------
(* C6 *)

\* C6: the cursor is never below 0 nor above the length of the buffer, and
\* no next_param call leaves it below where the call found it.
C6_CursorInvariant ==
    /\ position \in 0..Len(cmd_buffer)
    /\ op = "next_param" => call.position <= position

\* a call has moved the cursor to the end of a buffer that holds text
C6_Witness ==
    /\ Returned
    /\ call.position < position
    /\ position = Len(cmd_buffer)
    /\ Len(cmd_buffer) > 2

---------------------------------------------------------------------------
(* C7 *)

\* the last call was made with the cursor at or past the end of the buffer
CalledExhausted == Returned /\ call.position >= Len(cmd_buffer)

\* C7: a call made on an exhausted buffer clears the parameter buffer and
\* the token buffer, returns the empty name and leaves the cursor where it
\* was; it does not fail.
C7_ExhaustedBuffer ==
    (op = "next_param" /\ call.position >= Len(cmd_buffer)) =>
        /\ ~panicked
        /\ parameter_buffer = <<>>
        /\ token_buffer = <<>>
        /\ ret = <<>>
        /\ position = call.position

\* an exhausted call that followed a call which had fetched a name and a
\* token
C7_Witness ==
    /\ CalledExhausted
    /\ Len(yielded) > 0
    /\ yielded[Len(yielded)][1] # <<>>
    /\ yielded[Len(yielded)][2] # <<>>

---------------------------------------------------------------------------
(* C8 *)

\* the text before the cut point of a variable reference: before the first
\* '^' when the token holds one, else before the first '.', else all of it
NamePrefix(token) ==
    IF \E i \in 1..Len(token) : token[i] = "^"
    THEN SubSeq(token, 1, (CHOOSE i \in 1..Len(token) :
                              token[i] = "^" /\ \A j \in 1..(i - 1) : token[j] # "^") - 1)
    ELSE IF \E i \in 1..Len(token) : token[i] = "."
    THEN SubSeq(token, 1, (CHOOSE i \in 1..Len(token) :
                              token[i] = "." /\ \A j \in 1..(i - 1) : token[j] # ".") - 1)
    ELSE token

\* the text from the cut point on
NameSuffix(token) == SubSeq(token, Len(NamePrefix(token)) + 1, Len(token))

\* the token is a reference: longer than the sigil alone and begun by it
IsReference(token) == Len(token) > 1 /\ token[1] = "@"

\* the fetched token names a variable of the attached table
IsHit ==
    /\ IsReference(call.extracted)
    /\ parser_vars # None
    /\ NamePrefix(call.extracted) \in DOMAIN parser_vars[1].variables

\* the value stored for the variable the fetched token names
HitValue == parser_vars[1].variables[NamePrefix(call.extracted)]

\* that value has the form '{' + inner + '}'
HitIsBraced ==
    /\ Len(HitValue) >= 2
    /\ HitValue[1] = "{"
    /\ HitValue[Len(HitValue)] = "}"

\* the token in the token buffer was fetched from a quoted span
FromQuotedSpan ==
    /\ TokenStart < Len(cmd_buffer)
    /\ cmd_buffer[TokenStart + 1] \in QuoteOpens

\* C8: after every next_param call is_quoted_string tells whether the token
\* in the token buffer was fetched from a quoted span or was replaced by a
\* brace-wrapped variable value.
C8_QuotedFlagAccurate ==
    Returned =>
        (is_quoted_string <=> (FromQuotedSpan \/ (IsHit /\ HitIsBraced)))

---------------------------------------------------------------------------
(* C9 *)

\* C9: when the fetched token is no reference, or names no variable of the
\* table, or no table is attached, the substitution step leaves the token
\* buffer and is_quoted_string as the extraction left them.
C9_SubstitutionMiss ==
    (Returned /\ ~IsHit) =>
        /\ token_buffer = call.extracted
        /\ is_quoted_string = call.quoted

\* a reference to an undefined variable, fetched with a table attached
C9_Witness ==
    /\ Returned
    /\ parser_vars # None
    /\ IsReference(call.extracted)
    /\ ~IsHit
    /\ NameSuffix(call.extracted) # <<>>

---------------------------------------------------------------------------
(* C10 *)

\* C10: when the fetched token is '@name' + suffix and the table holds for
\* '@name' a value '{' + inner + '}', the token buffer becomes inner + suffix
\* and is_quoted_string becomes true.
C10_SubstitutionHitBraced ==
    (Returned /\ IsHit /\ HitIsBraced) =>
        /\ token_buffer = SubSeq(HitValue, 2, Len(HitValue) - 1)
                              \o NameSuffix(call.extracted)
        /\ is_quoted_string

\* a brace-wrapped hit on an unquoted token that has a suffix
C10_Witness ==
    /\ Returned
    /\ IsHit
    /\ HitIsBraced
    /\ NameSuffix(call.extracted) # <<>>
    /\ ~call.quoted

---------------------------------------------------------------------------
(* C11 *)

\* C11: when the fetched token is '@name' + suffix and the table holds for
\* '@name' a value that is not brace-wrapped, the token buffer becomes
\* value + suffix and is_quoted_string stays as the extraction left it.
C11_SubstitutionHitPlain ==
    (Returned /\ IsHit /\ ~HitIsBraced) =>
        /\ token_buffer = HitValue \o NameSuffix(call.extracted)
        /\ is_quoted_string = call.quoted

\* a plain hit on a token that has a suffix
C11_Witness ==
    /\ Returned
    /\ IsHit
    /\ ~HitIsBraced
    /\ NameSuffix(call.extracted) # <<>>
    /\ token_buffer # call.extracted


---------------------------------------------------------------------------
(* C12 *)

\* the value add is specified to store for a given one
Wrapped(v) ==
    IF \E i \in 1..Len(v) : v[i] = "@" THEN <<"{">> \o v \o <<"}">> ELSE v

\* C12: after add(n, v) and lookup(n), get_value() returns '{' + v + '}' when
\* v contains '@' and v otherwise, v being the value of the latest add to n.
C12_AddLookupGetValue ==
    \A n \in AddNames :
        ( /\ var_call.op = "get_value"
          /\ var_table.active_variable = Some(n)
          /\ var_given[n] # None
          /\ var_given[n][1].by = "add" ) =>
            var_call.ret_str = Wrapped(var_given[n][1].value)

\* get_value after the add of a value that has an '@' past its first
\* character, and a lookup of its name
C12_Witness ==
    \E n \in AddNames :
        /\ var_call.op = "get_value"
        /\ var_table.active_variable = Some(n)
        /\ var_call.before.variables[n] = <<"{", "4", "@", "}">>
        /\ var_given[n] = Some(Given("add", <<"4", "@">>))

---------------------------------------------------------------------------
(* C13 *)

\* C13: lookup(name) returns true and makes name the active variable when name
\* is in the table, which the seven intrinsic names always are (with the value
\* "null" on a new table); it returns false and clears the active variable
\* when name is not, whichever variable was active; it leaves every stored
\* value and the number of entries as they were.
C13_Lookup ==
    /\ Cardinality(IntrinsicNames) = 7
    /\ IntrinsicNames \subseteq DOMAIN var_table.variables
    /\ var_calls = 0 =>
           \A n \in IntrinsicNames : var_table.variables[n] = <<"n","u","l","l">>
    /\ var_call.op = "lookup" =>
           /\ var_table.variables = var_call.before.variables
           /\ Cardinality(DOMAIN var_table.variables)
                  = Cardinality(DOMAIN var_call.before.variables)
           /\ IF var_call.name \in DOMAIN var_call.before.variables
              THEN /\ var_call.ret_bool
                   /\ var_table.active_variable = Some(var_call.name)
              ELSE /\ ~var_call.ret_bool
                   /\ var_table.active_variable = None

\* a lookup of a missing name made while a variable was active
C13_Witness ==
    /\ var_call.op = "lookup"
    /\ var_call.name \notin DOMAIN var_call.before.variables
    /\ var_call.before.active_variable # None

---------------------------------------------------------------------------
(* C14 *)

\* C14: with no active variable get_value() returns the empty string and
\* set_value(v) changes nothing; with an active variable set_value(v) changes
\* the stored value of that variable only, and a get_value() that follows
\* returns v as given.
C14_ActiveVariableAccess ==
    /\ (var_call.op = "get_value" /\ var_call.before.active_variable = None) =>
           var_call.ret_str = <<>>
    /\ (var_call.op = "set_value" /\ var_call.before.active_variable = None) =>
           var_table = var_call.before
    /\ (var_call.op = "set_value" /\ var_call.before.active_variable # None) =>
           LET n == var_call.before.active_variable[1] IN
           /\ DOMAIN var_table.variables = DOMAIN var_call.before.variables
           /\ \A m \in DOMAIN var_table.variables \ {n} :
                  var_table.variables[m] = var_call.before.variables[m]
           /\ var_table.variables[n] = var_call.value
           /\ var_table.active_variable = var_call.before.active_variable
    /\ \A n \in AskNames :
           ( /\ var_call.op = "get_value"
             /\ var_table.active_variable = Some(n)
             /\ var_given[n] # None
             /\ var_given[n][1].by = "set_value" ) =>
               var_call.ret_str = var_given[n][1].value

\* get_value after a set_value that gave the active variable a value with '@'
C14_Witness ==
    \E n \in AskNames :
        /\ var_call.op = "get_value"
        /\ var_table.active_variable = Some(n)
        /\ var_given[n] = Some(Given("set_value", <<"@", "o">>))

---------------------------------------------------------------------------
(* C15 *)

\* the last call made on the calculator
LastOp == rpn_log[Len(rpn_log)]

\* C15: set_x(v) is a push on the 10-slot register: slot 0 becomes v, slot i
\* takes what slot i - 1 held for 1 <= i <= 9, and what slot 9 held is
\* discarded; enter_pi is the same with v = pi.
C15_SetXPushes ==
    (rpn_log # <<>> /\ LastOp.op \in {"set_x", "enter_pi"}) =>
        /\ DOMAIN stack = 1..10
        /\ stack[0 + 1] = (IF LastOp.op = "set_x" THEN LastOp.value ELSE <<"pi">>)
        /\ \A i \in 1..9 : stack[i + 1] = rpn_before[(i - 1) + 1]

\* pi entered on a stack whose ten slots hold entered values
C15_Witness ==
    /\ rpn_log # <<>>
    /\ LastOp.op = "enter_pi"
    /\ \A i \in 0..9 : rpn_before[i + 1] \in RpnValues
    /\ rpn_before[9 + 1] # rpn_before[8 + 1]

---------------------------------------------------------------------------
(* C16 *)

\* the values that are l op r for the binary operator o; addition and
\* multiplication of f64 commute
OpResults(o, l, r) ==
    CASE o = "add" -> { F_add(l, r), F_add(r, l) }
      [] o = "subtract" -> { F_sub(l, r) }
      [] o = "multiply" -> { F_mul(l, r), F_mul(r, l) }
      [] o = "divide" -> { F_div(l, r) }
      [] o = "y_to_the_x_power" -> { F_powf(l, r) }
      [] o = "atan2_deg" -> { F_mul(RAD_TO_DEG, F_atan2(l, r)),
                              F_mul(F_atan2(l, r), RAD_TO_DEG) }

---------------------------------------------------------------------------
(* C17 *)

\* the calls made on a new calculator are set_x(a); set_x(b); set_x(c);
\* roll_down(); roll_up()
LoadedRolledDownAndUp ==
    /\ Len(rpn_log) = 5
    /\ \A i \in 1..3 : rpn_log[i].op = "set_x"
    /\ rpn_log[4].op = "roll_down"
    /\ rpn_log[5].op = "roll_up"

\* C17: after set_x(a); set_x(b); set_x(c) on a new calculator, roll_down()
\* followed by roll_up() leaves X = c, Y = b and Z = a.
C17_RollRoundTrip ==
    LoadedRolledDownAndUp =>
        /\ stack[0 + 1] = rpn_log[3].value
        /\ stack[1 + 1] = rpn_log[2].value
        /\ stack[2 + 1] = rpn_log[1].value

\* C17, amended: after set_x(a); set_x(b); set_x(c) on a new calculator,
\* roll_down() followed by roll_up() leaves X = b, Y = b and Z = a: c is lost.
C17_RollDownThenUp ==
    LoadedRolledDownAndUp =>
        /\ stack[0 + 1] = rpn_log[2].value
        /\ stack[1 + 1] = rpn_log[2].value
        /\ stack[2 + 1] = rpn_log[1].value
        /\ \A i \in 3..9 : stack[i + 1] = <<"num", 0>>

\* the round trip made on three values of which the last two differ
C17_Witness ==
    /\ LoadedRolledDownAndUp
    /\ rpn_log[2].value # rpn_log[3].value
    /\ rpn_log[1].value # rpn_log[2].value

---------------------------------------------------------------------------
(* C18 *)

\* the calls made on a new calculator are n calls of set_x followed by k
\* calls of roll_down
EnteredThenRolledDown(n, k) ==
    /\ Len(rpn_log) = n + k
    /\ \A i \in 1..n : rpn_log[i].op = "set_x"
    /\ \A i \in (n + 1)..(n + k) : rpn_log[i].op = "roll_down"

\* C18: the stack always has exactly 10 slots; after 10 consecutive set_x
\* calls with v1..v10 slot i holds v(10-i); 7 roll_down calls after them leave
\* X = v3, Y = v2, Z = v1; after an 11th set_x no slot holds v1 (when v1 is
\* none of v2..v11).
C18_AlwaysTenSlots ==
    /\ DOMAIN stack = 1..10
    /\ EnteredThenRolledDown(10, 0) =>
           \A i \in 0..9 : stack[i + 1] = rpn_log[10 - i].value
    /\ EnteredThenRolledDown(10, 7) =>
           /\ stack[0 + 1] = rpn_log[3].value
           /\ stack[1 + 1] = rpn_log[2].value
           /\ stack[2 + 1] = rpn_log[1].value
    /\ ( /\ EnteredThenRolledDown(11, 0)
         /\ \A j \in 2..11 : rpn_log[j].value # rpn_log[1].value ) =>
           \A i \in 0..9 : stack[i + 1] # rpn_log[1].value

\* an 11th value entered after ten of which only the first is 4
C18_Witness ==
    /\ EnteredThenRolledDown(11, 0)
    /\ rpn_log[1].value = <<"num", 4>>
    /\ \A j \in 2..11 : rpn_log[j].value = <<"num", 10>>

---------------------------------------------------------------------------
(* C19 *)

\* where the word that the last call began with ends
CallWordStop == WordStop(cmd_buffer, call.position)

\* the last call began on an unquoted word that holds a '/' (none of them
\* followed by another '/', or the word would have ended there)
BeganOnSlashWord ==
    /\ call.has_input
    /\ cmd_buffer[call.position + 1] \notin QuoteOpens
    /\ \E j \in call.position..(CallWordStop - 1) : cmd_buffer[j + 1] = "/"

\* C19: a '/' that is not followed by another '/' is no comment marker: the
\* first token of a call that begins on a word holding such a '/' is the whole
\* word, and when the word is not ended by a comment marker and other text
\* follows its terminator, the cursor is not at the end of the buffer after
\* that token.
C19_StandaloneSlash ==
    (Returned /\ BeganOnSlashWord) =>
        /\ call.first.token = Slice(cmd_buffer, call.position, CallWordStop)
        /\ ( /\ ~MarkerAt(cmd_buffer, CallWordStop)
             /\ \E j \in (CallWordStop + 1)..(Len(cmd_buffer) - 1) :
                    cmd_buffer[j + 1] \notin {" ", "\t"} ) =>
               call.first.position < Len(cmd_buffer)

---------------------------------------------------------------------------
(* C20 *)

\* where the line's first token begins, and where the quoted span that
\* begins there ends
LineStart == BlankStop(cmd_buffer, 0)

LineSpanStop ==
    SpanStop(cmd_buffer, LineStart + 1, CloseOf(cmd_buffer[LineStart + 1]))

\* where the text after that span begins
AfterLineSpan == BlankStop(cmd_buffer, LineSpanStop + 1)

\* the line is a closed quoted span, whitespace, and a word ended by
\* whitespace
SpanBlankWord ==
    /\ LineStart < Len(cmd_buffer)
    /\ \E pr \in QuotePairs : pr[1] = cmd_buffer[LineStart + 1]
    /\ LineSpanStop + 1 < Len(cmd_buffer)
    /\ cmd_buffer[(LineSpanStop + 1) + 1] \in {" ", "\t"}
    /\ AfterLineSpan < Len(cmd_buffer)
    /\ ~TerminatorAt(cmd_buffer, AfterLineSpan)
    /\ cmd_buffer[AfterLineSpan + 1] \notin QuoteOpens
    /\ cmd_buffer[WordStop(cmd_buffer, AfterLineSpan) + 1] \in {" ", "\t"}

\* C20: when next_param returns, the cursor is at the end of the buffer or at
\* a character that is no whitespace, whether the token was quoted or not; a
\* line made of a quoted span, whitespace and a word yields the text of the
\* span and the word on its first two calls.
C20_CursorPastWhitespace ==
    /\ Returned =>
           \/ position = Len(cmd_buffer)
           \/ cmd_buffer[position + 1] \notin {" ", "\t"}
    /\ (Returned /\ SpanBlankWord /\ Len(yielded) >= 2) =>
           /\ yielded[1][2] = Slice(cmd_buffer, LineStart + 1, LineSpanStop)
           /\ yielded[2][2] = Slice(cmd_buffer, AfterLineSpan,
                                    WordStop(cmd_buffer, AfterLineSpan))

---------------------------------------------------------------------------
(* C21 *)

\* the index just past the token the last call fetched at a quote-open
\* character
QuotedTokenEnd == TokenStart + 1 + Len(call.extracted)

\* the last call fetched its token at the character open
FetchedAt(open) ==
    /\ Returned
    /\ TokenStart < Len(cmd_buffer)
    /\ cmd_buffer[TokenStart + 1] = open

\* the token fetched after the open character is the text up to the first
\* character close, which alone ends it, or up to the end of the buffer
ClosedOnlyBy(close) ==
    /\ call.quoted
    /\ QuotedTokenEnd <= Len(cmd_buffer)
    /\ call.extracted = Slice(cmd_buffer, TokenStart + 1, QuotedTokenEnd)
    /\ \A i \in 1..Len(call.extracted) : call.extracted[i] # close
    /\ QuotedTokenEnd < Len(cmd_buffer) => cmd_buffer[QuotedTokenEnd + 1] = close

\* C21: in a parser as constructed, a token opened by '(' is closed only by
\* ')', one opened by '"' only by '}' (a second '"' does not end it), one
\* opened by "'" only by "'", and one opened by '[' only by ']'.
C21_DefaultQuotePairing ==
    /\ FetchedAt("(") => ClosedOnlyBy(")")
    /\ FetchedAt("\"") => ClosedOnlyBy("}")
    /\ FetchedAt("'") => ClosedOnlyBy("'")
    /\ FetchedAt("[") => ClosedOnlyBy("]")

\* a token opened by '"' that holds a second '"' and is closed by '}'
C21_Witness ==
    /\ FetchedAt("\"")
    /\ \E i \in 1..Len(call.extracted) : call.extracted[i] = "\""
    /\ QuotedTokenEnd < Len(cmd_buffer)
    /\ cmd_buffer[QuotedTokenEnd + 1] = "}"

---------------------------------------------------------------------------
(* C22 *)

\* the fetched token after one splice of the value of the variable it names
SplicedOnce ==
    (IF HitIsBraced THEN SubSeq(HitValue, 2, Len(HitValue) - 1) ELSE HitValue)
        \o NameSuffix(call.extracted)

\* that text is itself a reference to a variable of the table
SplicedIsHit ==
    /\ IsReference(SplicedOnce)
    /\ NamePrefix(SplicedOnce) \in DOMAIN parser_vars[1].variables

\* C22: a next_param call looks up one name at most, the one of the token it
\* fetched, and splices once: when the text spliced in is itself a reference
\* to a defined variable, the token buffer holds it as it is.
C22_SubstitutionOnce ==
    (Returned /\ parser_vars # None /\ IsReference(call.extracted)) =>
        /\ parser_vars[1].active_variable =
               (IF IsHit THEN <<NamePrefix(call.extracted)>> ELSE <<>>)
        /\ (IsHit /\ SplicedIsHit) => token_buffer = SplicedOnce

\* a hit on a value stored as given that names another defined variable
C22_Witness ==
    /\ Returned
    /\ IsHit
    /\ ~HitIsBraced
    /\ SplicedIsHit
    /\ NamePrefix(SplicedOnce) # NamePrefix(call.extracted)

---------------------------------------------------------------------------
(* C23 *)

\* the index of the first ch of the token (the token holds one)
FirstOf(token, ch) ==
    CHOOSE i \in 0..(Len(token) - 1) :
        token[i + 1] = ch /\ \A j \in 0..(i - 1) : token[j + 1] # ch

Holds(token, ch) == \E i \in 1..Len(token) : token[i] = ch

\* the cut point of a reference: the first '^' when there is one, whatever
\* precedes it, else the first '.', else the end of the token
CutPoint(token) ==
    IF Holds(token, "^") THEN FirstOf(token, "^")
    ELSE IF Holds(token, ".") THEN FirstOf(token, ".")
    ELSE Len(token)

\* C23: for a fetched token that begins with '@' and is longer than 1, the
\* name looked up is the text before the cut point (it becomes the active
\* variable when it is defined, and none is active when it is not), and the
\* text from the cut point on ends the token buffer.
C23_NameCutPoint ==
    (Returned /\ parser_vars # None /\ IsReference(call.extracted)) =>
        LET cut == CutPoint(call.extracted)
            name == SubSeq(call.extracted, 1, cut)
            suffix == SubSeq(call.extracted, cut + 1, Len(call.extracted))
        IN  /\ IF name \in DOMAIN parser_vars[1].variables
               THEN /\ parser_vars[1].active_variable = <<name>>
                    /\ token_buffer # call.extracted
               ELSE /\ parser_vars[1].active_variable = <<>>
                    /\ token_buffer = call.extracted
            /\ Len(token_buffer) >= Len(suffix)
            /\ SubSeq(token_buffer, Len(token_buffer) - Len(suffix) + 1,
                      Len(token_buffer)) = suffix

\* a reference that holds a '.' before its first '^'
C23_Witness ==
    /\ Returned
    /\ parser_vars # None
    /\ IsReference(call.extracted)
    /\ Holds(call.extracted, "^")
    /\ Holds(call.extracted, ".")
    /\ FirstOf(call.extracted, ".") < FirstOf(call.extracted, "^")

---------------------------------------------------------------------------
(* C24 *)

\* the text of the line from where the last call began up to the '=' that
\* ended its first token
RawName == Slice(cmd_buffer, call.position, EqualsPos)

\* C24: when next_param takes its first token as a parameter name (it was
\* ended by '='), the name returned and the parameter buffer are the text as
\* it stands on the line, also when it begins with '@' and names a defined
\* variable, while the value token that follows is substituted.
C24_SubstitutionOnTokenOnly ==
    (Returned /\ call.paired) =>
        /\ ret = RawName
        /\ parameter_buffer = RawName
        /\ IsHit => (token_buffer = SplicedOnce /\ token_buffer # call.extracted)

\* a pair whose name and whose value both are references to defined
\* variables
C24_Witness ==
    /\ Returned
    /\ call.paired
    /\ parser_vars # None
    /\ IsReference(ret)
    /\ NamePrefix(ret) \in DOMAIN parser_vars[1].variables
    /\ IsHit

---------------------------------------------------------------------------
(* C25 *)

\* C25: roll_up and roll_down shift and do not rotate: roll_up sets slot i to
\* what slot i - 1 held for 1 <= i <= 9 and leaves slot 0 (X = Y afterwards),
\* what slot 9 held being dropped; roll_down sets slot i to what slot i + 1
\* held for 0 <= i <= 8 and leaves slot 9, what slot 0 held being dropped.
\* After c, b, a as X, Y, Z over zeros, roll_down gives b, a, 0.
C25_RollsAreShifts ==
    /\ (rpn_log # <<>> /\ LastOp.op = "roll_up") =>
           /\ \A i \in 1..9 : stack[i + 1] = rpn_before[(i - 1) + 1]
           /\ stack[0 + 1] = rpn_before[0 + 1]
           /\ stack[0 + 1] = stack[1 + 1]
    /\ (rpn_log # <<>> /\ LastOp.op = "roll_down") =>
           /\ \A i \in 0..8 : stack[i + 1] = rpn_before[(i + 1) + 1]
           /\ stack[9 + 1] = rpn_before[9 + 1]
    /\ EnteredThenRolledDown(3, 1) =>
           /\ stack[0 + 1] = rpn_log[2].value
           /\ stack[1 + 1] = rpn_log[1].value
           /\ stack[2 + 1] = <<"num", 0>>

\* a roll_up of a stack whose first and last slots hold different entered
\* values
C25_Witness ==
    /\ rpn_log # <<>>
    /\ LastOp.op = "roll_up"
    /\ rpn_before[9 + 1] \in RpnValues
    /\ rpn_before[0 + 1] \in RpnValues
    /\ rpn_before[9 + 1] # rpn_before[0 + 1]

---------------------------------------------------------------------------
(* C26 *)

\* C26: a next_param call made with the cursor before the end of the buffer
\* returns with the cursor further on, so that a buffer of length n is
\* exhausted after at most n such calls; a call made after that returns the
\* empty name and leaves the token buffer empty.
C26_ProgressAndExhaustion ==
    /\ (op = "next_param" /\ call.position < Len(cmd_buffer)) =>
           /\ ~panicked
           /\ position > call.position
    /\ Len(yielded) <= Len(cmd_buffer)
    /\ (op = "next_param" /\ call.position >= Len(cmd_buffer)) =>
           /\ ret = <<>>
           /\ token_buffer = <<>>

---------------------------------------------------------------------------
(* C27 *)

\* C27: after any calls of add, lookup, set_value, get_value, get_var_string
\* and num_variables the active variable is unset or the name of an entry of
\* the table; set_value creates no entry, and add, get_value, get_var_string
\* and num_variables leave the active variable as it was.
C27_ActiveVariableInTable ==
    /\ \/ var_table.active_variable = <<>>
       \/ var_table.active_variable[1] \in DOMAIN var_table.variables
    /\ var_call.op = "set_value" =>
           /\ DOMAIN var_table.variables = DOMAIN var_call.before.variables
           /\ ParserVar_num_variables(var_table)
                  = ParserVar_num_variables(var_call.before)
    /\ var_call.op \in {"add", "get_value", "get_var_string", "num_variables"} =>
           var_table.active_variable = var_call.before.active_variable
    /\ var_call.op = "num_variables" =>
           var_call.ret_num = Cardinality(DOMAIN var_table.variables)

\* an add of a new name made while another variable was active
C27_Witness ==
    /\ var_call.op = "add"
    /\ var_call.before.active_variable # <<>>
    /\ var_call.name \notin DOMAIN var_call.before.variables
    /\ var_call.before.active_variable # <<var_call.name>>

---------------------------------------------------------------------------
(* C28 *)

\* the last call began on a quote-open character that has a close character
BeganOnQuote ==
    /\ Returned
    /\ call.position < Len(cmd_buffer)
    /\ \E pr \in QuotePairs : pr[1] = cmd_buffer[call.position + 1]

\* where the quoted span the last call began on ends
CallSpanStop ==
    SpanStop(cmd_buffer, call.position + 1,
             CloseOf(cmd_buffer[call.position + 1]))

\* C28: a call whose first token is quoted returns the empty name, fetches
\* the quoted text as its token and leaves last_delimiter = ' ', whatever
\* follows the closing quote and whatever delimiter the previous call left.
C28_QuotedFirstTokenNeverPairs ==
    BeganOnQuote =>
        /\ ret = <<>>
        /\ parameter_buffer = <<>>
        /\ ~call.paired
        /\ call.extracted = Slice(cmd_buffer, call.position + 1, CallSpanStop)
        /\ last_delimiter = " "

\* a quoted first token fetched by a second call, the first having ended on
\* the '=' that stands just before the quote
C28_Witness ==
    /\ BeganOnQuote
    /\ Len(yielded) >= 2
    /\ call.position > 0
    /\ cmd_buffer[(call.position - 1) + 1] = "="

=============================================================================
